---- MODULE Spec2Model ----
(***************************************************************************)
(* A model of slopjson's path addressing and search correlation:           *)
(*   src/src/path_formatting.rs   format_path_component, build_*_path      *)
(*   src/src/value_lookup.rs      parse_json_path, lookup_value, ...       *)
(*   src/src/document_store.rs    JsonLDocument, StoredDocument            *)
(*   src/src/search.rs            find_all_occurrences, find_occurrence_.. *)
(*                                                                         *)
(* A string is a sequence of characters; a character is a one-element      *)
(* TLA+ string naming it ("a", "$", ...).  Option<T> is a record           *)
(* [some |-> FALSE] (None) or [some |-> TRUE, val |-> v] (Some(v)).        *)
(***************************************************************************)
EXTENDS Naturals, Integers, Sequences, FiniteSets

\* ------------------------------------------------------------------------
\* Bounds of the model
\* ------------------------------------------------------------------------

\* segments appended to one path by the builders
MaxSegs == 2
\* key characters in one built path, summed over its Key segments
MaxKeyChars == 2
\* characters after the first one in an enumerated raw path string
MaxTailLen == 5
\* characters in an enumerated raw path string that need not start with '$'
MaxShortLen == 2
\* characters in a key given to format_path_component alone
MaxComponentLen == 3
\* characters in a text searched by find_all_occurrences
MaxTextLen == 4
\* characters in a pattern searched for by find_all_occurrences
MaxPatternLen == 2
\* characters in a node text (formatted_value) given to find_occurrence_to_highlight
MaxNodeTextLen == 3
\* characters in a search text given to find_occurrence_to_highlight
MaxSearchTextLen == 1
\* records in a match list given to find_occurrence_to_highlight
MaxMatches == 3
\* nodes (scalars, arrays, objects) in a stored document
MaxNodes == 3
\* segments in a path built for a lookup
MaxLookupSegs == 2

\* ------------------------------------------------------------------------
\* Characters and strings
\* ------------------------------------------------------------------------

DQUOTE == "\""

BSLASH == "\\"

DigitChars == <<"0", "1", "2", "3", "4", "5", "6", "7", "8", "9">>

Digits == {DigitChars[i] : i \in 1..10}

\* char::is_ascii_digit
IsAsciiDigit(c) == c \in Digits

\* the digit's value: the position of c in "0123456789"
DigitValue(c) == (CHOOSE i \in 1..10 : DigitChars[i] = c) - 1

Letters == {"a", "b", "f", "o", "r", "k", "e", "y", "v", "l", "u", "t", "s", "m"}

\* char::is_alphabetic, on the characters of the model
IsAlphabetic(c) == c \in Letters

\* char::is_alphanumeric: alphabetic or numeric
IsAlphanumeric(c) == IsAlphabetic(c) \/ c \in Digits

None == [some |-> FALSE]

Some(v) == [some |-> TRUE, val |-> v]

\* all strings over the characters cs of length n
RECURSIVE StringsOfLen(_, _)
StringsOfLen(cs, n) ==
    IF n = 0 THEN {<<>>}
    ELSE {Append(s, c) : s \in StringsOfLen(cs, n - 1), c \in cs}

\* all strings over the characters cs of length at most n
StringsUpTo(cs, n) == UNION {StringsOfLen(cs, k) : k \in 0..n}

\* ------------------------------------------------------------------------
\* PathSegment (value_lookup.rs)
\* ------------------------------------------------------------------------

Key(k) == [seg |-> "Key", key |-> k]

Index(i) == [seg |-> "Index", index |-> i]

\* ------------------------------------------------------------------------
\* path_formatting.rs
\* ------------------------------------------------------------------------

\* str::replace(from, to) with a one-character pattern
RECURSIVE Replace(_, _, _)
Replace(s, from, to) ==
    IF s = <<>> THEN <<>>
    ELSE (IF Head(s) = from THEN to ELSE <<Head(s)>>) \o Replace(Tail(s), from, to)

\* a mutant of is_valid_identifier: the first character may be a digit
is_valid_identifier_DigitFirst(key) ==
    /\ key # <<>>
    /\ \A i \in 1..Len(key) : IsAlphanumeric(key[i]) \/ key[i] = "_"

is_valid_identifier(key) ==
    /\ key # <<>>
    /\ (IsAlphabetic(key[1]) \/ key[1] = "_")
    /\ \A i \in 1..Len(key) : IsAlphanumeric(key[i]) \/ key[i] = "_"

\* a mutant of format_path_component: the quote pass runs before the backslash pass
format_path_component_QuoteFirst(key) ==
    IF is_valid_identifier(key)
    THEN <<".">> \o key
    ELSE <<"[", DQUOTE>>
         \o Replace(Replace(key, DQUOTE, <<BSLASH, DQUOTE>>), BSLASH, <<BSLASH, BSLASH>>)
         \o <<DQUOTE, "]">>

format_path_component(key) ==
    IF is_valid_identifier(key)
    THEN <<".">> \o key
    ELSE <<"[", DQUOTE>>
         \o Replace(Replace(key, BSLASH, <<BSLASH, BSLASH>>), DQUOTE, <<BSLASH, DQUOTE>>)
         \o <<DQUOTE, "]">>

\* a mutant of build_object_path: a base that is not a path is replaced by "$"
build_object_path_RootedBase(base, key) ==
    (IF base # <<>> /\ base[1] = "$" THEN base ELSE <<"$">>) \o format_path_component(key)

build_object_path(base, key) == base \o format_path_component(key)

\* Display of an unsigned integer: its decimal digits, no sign, no leading zero
RECURSIVE Decimal(_)
Decimal(n) ==
    IF n < 10 THEN <<DigitChars[n + 1]>>
    ELSE Append(Decimal(n \div 10), DigitChars[(n % 10) + 1])

build_array_path(base, index) == base \o <<"[">> \o Decimal(index) \o <<"]">>

\* ------------------------------------------------------------------------
\* value_lookup.rs: parse_json_path
\* ------------------------------------------------------------------------

\* the decimal digits of usize::MAX = 2^64 - 1 (a 64-bit target)
UsizeMaxDigits ==
    <<"1", "8", "4", "4", "6", "7", "4", "4", "0", "7",
      "3", "7", "0", "9", "5", "5", "1", "6", "1", "5">>

\* a digit string without its leading zeros (one digit is always kept)
RECURSIVE StripZeros(_)
StripZeros(d) ==
    IF Len(d) > 1 /\ d[1] = "0" THEN StripZeros(Tail(d)) ELSE d

\* d, without leading zeros, denotes a number greater than usize::MAX
ExceedsUsizeMax(d) ==
    \/ Len(d) > Len(UsizeMaxDigits)
    \/ /\ Len(d) = Len(UsizeMaxDigits)
       /\ \E i \in 1..Len(d) :
             /\ DigitValue(d[i]) > DigitValue(UsizeMaxDigits[i])
             /\ \A j \in 1..(i - 1) : d[j] = UsizeMaxDigits[j]

\* the number a digit string denotes (Horner, most significant digit first)
RECURSIVE DigitsValue(_, _)
DigitsValue(d, acc) ==
    IF d = <<>> THEN acc ELSE DigitsValue(Tail(d), acc * 10 + DigitValue(Head(d)))

\* a mutant of ParseUsize: the empty digit string parses to 0
ParseUsize_EmptyIsZero(index_str) ==
    IF index_str = <<>> THEN Some(0)
    ELSE IF ExceedsUsizeMax(StripZeros(index_str)) THEN None
    ELSE Some(DigitsValue(index_str, 0))

\* index_str.parse::<usize>().ok() on a string of ASCII digits: the empty string
\* and a number that does not fit usize are errors; leading zeros are accepted.
\* The overflow that checked_mul/checked_add detect digit by digit is decided here
\* by comparing the digits with those of usize::MAX.
ParseUsize(index_str) ==
    IF index_str = <<>> THEN None
    ELSE IF ExceedsUsizeMax(StripZeros(index_str)) THEN None
    ELSE Some(DigitsValue(index_str, 0))

\* lines 36-42: the run of characters from position i up to the next '.' or '['
RECURSIVE ScanDotKey(_, _, _)
ScanDotKey(s, i, key) ==
    IF i > Len(s) \/ s[i] = "." \/ s[i] = "[" THEN [key |-> key, next |-> i]
    ELSE ScanDotKey(s, i + 1, Append(key, s[i]))

\* lines 53-65: the quoted key from position i; ok = FALSE is the return None of
\* an unterminated escape; the loop ends at the closing quote (consumed) or
\* at the end of the input
RECURSIVE ScanQuotedKey(_, _, _)
ScanQuotedKey(s, i, key) ==
    IF i > Len(s) THEN [ok |-> TRUE, key |-> key, next |-> i]
    ELSE IF s[i] = BSLASH
         THEN IF i + 1 <= Len(s)
              THEN ScanQuotedKey(s, i + 2, Append(key, s[i + 1]))
              ELSE [ok |-> FALSE, key |-> key, next |-> i + 1]
    ELSE IF s[i] = DQUOTE THEN [ok |-> TRUE, key |-> key, next |-> i + 1]
    ELSE ScanQuotedKey(s, i + 1, Append(key, s[i]))

\* lines 72-81: the digits from position i up to ']' (not consumed) or the end of
\* the input; ok = FALSE is the return None of a non-digit
RECURSIVE ScanIndex(_, _, _)
ScanIndex(s, i, index_str) ==
    IF i > Len(s) \/ s[i] = "]" THEN [ok |-> TRUE, str |-> index_str, next |-> i]
    ELSE IF ~IsAsciiDigit(s[i]) THEN [ok |-> FALSE, str |-> index_str, next |-> i]
    ELSE ScanIndex(s, i + 1, Append(index_str, s[i]))

\* chars.next()? != ']' (lines 66, 82): the next character exists and is ']'
ClosesAt(s, i) == i <= Len(s) /\ s[i] = "]"

\* lines 31-93: the loop over the components, from position i
RECURSIVE ParseComponents(_, _, _)
ParseComponents(s, i, segments) ==
    IF i > Len(s) THEN Some(segments)
    ELSE IF s[i] = "."
    THEN LET r == ScanDotKey(s, i + 1, <<>>)
         IN  IF r.key = <<>> THEN None
             ELSE ParseComponents(s, r.next, Append(segments, Key(r.key)))
    ELSE IF s[i] = "["
    THEN IF i + 1 <= Len(s) /\ s[i + 1] = DQUOTE
         THEN LET r == ScanQuotedKey(s, i + 2, <<>>)
              IN  IF ~r.ok THEN None
                  ELSE IF ~ClosesAt(s, r.next) THEN None
                  ELSE ParseComponents(s, r.next + 1, Append(segments, Key(r.key)))
         ELSE LET r == ScanIndex(s, i + 1, <<>>)
                  index == ParseUsize(r.str)
              IN  IF ~r.ok THEN None
                  ELSE IF ~ClosesAt(s, r.next) THEN None
                  ELSE IF ~index.some THEN None
                  ELSE ParseComponents(s, r.next + 1, Append(segments, Index(index.val)))
    ELSE None

parse_json_path(path) ==
    IF path = <<>> THEN None
    ELSE IF path[1] # "$" THEN None
    ELSE ParseComponents(path, 2, <<>>)

\* ------------------------------------------------------------------------
\* serde_json::Value, and value_lookup.rs: lookup
\* ------------------------------------------------------------------------

Null == [t |-> "null"]

Num(n) == [t |-> "number", n |-> n]

\* an array, with its elements in order
Arr(items) == [t |-> "array", items |-> items]

\* an object: its members <<key, value>> in order, with distinct keys
Obj(members) == [t |-> "object", members |-> members]

\* a mutant of ValueGetKey: the members are searched from the second one on
ValueGetKey_SkipFirst(v, key) ==
    IF v.t # "object" THEN None
    ELSE LET at == {i \in 2..Len(v.members) : v.members[i][1] = key}
         IN  IF at = {} THEN None ELSE Some(v.members[CHOOSE i \in at : TRUE][2])

\* Value::get(key: &String): the member of an object, None for any other value
ValueGetKey(v, key) ==
    IF v.t # "object" THEN None
    ELSE LET at == {i \in 1..Len(v.members) : v.members[i][1] = key}
         IN  IF at = {} THEN None ELSE Some(v.members[CHOOSE i \in at : TRUE][2])

\* a mutant of ValueGetIndex: an index past the end selects the last element
ValueGetIndex_Clamp(v, index) ==
    IF v.t # "array" THEN None
    ELSE IF v.items = <<>> THEN None
    ELSE IF index < Len(v.items) THEN Some(v.items[index + 1])
    ELSE Some(v.items[Len(v.items)])

\* Value::get(index: usize): the element of an array, None for any other value
ValueGetIndex(v, index) ==
    IF v.t # "array" THEN None
    ELSE IF index < Len(v.items) THEN Some(v.items[index + 1])
    ELSE None

\* lines 96-109: follow the segments from position i on
RECURSIVE LookupFrom(_, _, _)
LookupFrom(current, segments, i) ==
    IF i > Len(segments) THEN Some(current)
    ELSE LET next == IF segments[i].seg = "Key"
                     THEN ValueGetKey(current, segments[i].key)
                     ELSE ValueGetIndex(current, segments[i].index)
         IN  IF ~next.some THEN None ELSE LookupFrom(next.val, segments, i + 1)

lookup_in_value(value, segments) == LookupFrom(value, segments, 1)

lookup_value(root, p) ==
    LET segments == parse_json_path(p)
    IN  IF ~segments.some THEN None
        ELSE IF segments.val = <<>> THEN Some(root)
        ELSE lookup_in_value(root, segments.val)

\* a mutant of lookup_value_in_jsonl: the lines are numbered from one
lookup_value_in_jsonl_FromOne(values, p) ==
    LET segments == parse_json_path(p)
    IN  IF ~segments.some THEN None
        ELSE IF segments.val = <<>> THEN None
        ELSE LET first == Head(segments.val)
                 rest == Tail(segments.val)
             IN  IF first.seg = "Index"
                 THEN IF 1 <= first.index /\ first.index <= Len(values)
                      THEN lookup_in_value(values[first.index], rest)
                      ELSE None
                 ELSE None

lookup_value_in_jsonl(values, p) ==
    LET segments == parse_json_path(p)
    IN  IF ~segments.some THEN None
        ELSE IF segments.val = <<>> THEN None
        ELSE LET first == Head(segments.val)
                 rest == Tail(segments.val)
             IN  IF first.seg = "Index"
                 THEN IF first.index < Len(values)
                      THEN lookup_in_value(values[first.index + 1], rest)
                      ELSE None
                 ELSE None

\* ------------------------------------------------------------------------
\* document_store.rs
\* ------------------------------------------------------------------------

\* the key of the summary's only member
LinesKey == <<"l", "i", "n", "e", "s">>

\* JsonLDocument::new
\* a mutant of JsonLDocument_new: the summary counts the distinct lines
JsonLDocument_new_DistinctLines(values) ==
    [kind |-> "JsonL",
     values |-> values,
     summary |-> Obj(<< <<LinesKey,
                          Num(Cardinality({values[i] : i \in 1..Len(values)}))>> >>)]

JsonLDocument_new(values) ==
    [kind |-> "JsonL",
     values |-> values,
     summary |-> Obj(<< <<LinesKey, Num(Len(values))>> >>)]

\* StoredDocument::Single
Single(value) == [kind |-> "Single", value |-> value]

\* a mutant of StoredDocument_lookup_value: the root case tests the first character
StoredDocument_lookup_value_DollarPrefix(doc, p) ==
    IF doc.kind = "Single" THEN lookup_value(doc.value, p)
    ELSE IF p # <<>> /\ p[1] = "$" THEN Some(doc.summary)
    ELSE lookup_value_in_jsonl(doc.values, p)

\* a mutant of StoredDocument_lookup_value: no root case
StoredDocument_lookup_value_NoRootCase(doc, p) ==
    IF doc.kind = "Single" THEN lookup_value(doc.value, p)
    ELSE lookup_value_in_jsonl(doc.values, p)

\* StoredDocument::lookup_value
StoredDocument_lookup_value(doc, p) ==
    IF doc.kind = "Single" THEN lookup_value(doc.value, p)
    ELSE IF p = <<"$">> THEN Some(doc.summary)
    ELSE lookup_value_in_jsonl(doc.values, p)

\* ------------------------------------------------------------------------
\* tree_builder.rs: the data paths of the rows
\* ------------------------------------------------------------------------

\* a row appended to the tree store: its data path (column 3) and the value it
\* was appended for
Row(data_path, value) == [data_path |-> data_path, value |-> Some(value)]

\* the root row of a JSONL file: data path "$", and no value
JsonlRootRow == [data_path |-> <<"$">>, value |-> None]

\* a mutant of populate_tree: the rows of the elements of an array are numbered
\* from one, as the names of the line rows are
RECURSIVE populate_tree_FromOne(_, _, _)
populate_tree_FromOne(value, data_path, i) ==
    IF value.t = "object"
    THEN IF i > Len(value.members) THEN <<>>
         ELSE LET new_data_path == build_object_path(data_path, value.members[i][1])
              IN  <<Row(new_data_path, value.members[i][2])>>
                      \o populate_tree_FromOne(value.members[i][2], new_data_path, 1)
                      \o populate_tree_FromOne(value, data_path, i + 1)
    ELSE IF value.t = "array"
    THEN IF i > Len(value.items) THEN <<>>
         ELSE LET new_data_path == build_array_path(data_path, i)
              IN  <<Row(new_data_path, value.items[i])>>
                      \o populate_tree_FromOne(value.items[i], new_data_path, 1)
                      \o populate_tree_FromOne(value, data_path, i + 1)
    ELSE <<>>

\* populate_tree (lines 60-122): the rows appended for the members or the
\* elements of value from the i-th on (1-based; idx = i - 1), each followed by
\* the rows of its own descendants; none for a leaf
RECURSIVE populate_tree(_, _, _)
populate_tree(value, data_path, i) ==
    IF value.t = "object"
    THEN IF i > Len(value.members) THEN <<>>
         ELSE LET new_data_path == build_object_path(data_path, value.members[i][1])
              IN  <<Row(new_data_path, value.members[i][2])>>
                      \o populate_tree(value.members[i][2], new_data_path, 1)
                      \o populate_tree(value, data_path, i + 1)
    ELSE IF value.t = "array"
    THEN IF i > Len(value.items) THEN <<>>
         ELSE LET new_data_path == build_array_path(data_path, i - 1)
              IN  <<Row(new_data_path, value.items[i])>>
                      \o populate_tree(value.items[i], new_data_path, 1)
                      \o populate_tree(value, data_path, i + 1)
    ELSE <<>>

\* add_single_value_to_tree (lines 131-151)
add_single_value_to_tree(value) ==
    <<Row(<<"$">>, value)>> \o populate_tree(value, <<"$">>, 1)

\* lines 181-203: the rows of the lines from the i-th on (idx = i - 1)
RECURSIVE LineRows(_, _)
LineRows(json_values, i) ==
    IF i > Len(json_values) THEN <<>>
    ELSE LET data_path == build_array_path(<<"$">>, i - 1)
         IN  <<Row(data_path, json_values[i])>>
                 \o populate_tree(json_values[i], data_path, 1)
                 \o LineRows(json_values, i + 1)

\* add_jsonl_to_tree (lines 162-204)
add_jsonl_to_tree(json_values) == <<JsonlRootRow>> \o LineRows(json_values, 1)

\* ------------------------------------------------------------------------
\* search.rs: find_all_occurrences
\* ------------------------------------------------------------------------

\* a call that panicked, and a call that returned v
Panic == [panic |-> TRUE]

Returned(v) == [panic |-> FALSE, val |-> v]

\* the UTF-8 encoding of a character: "rsquo" is U+2019, the curly apostrophe
\* of the test at search.rs:296, three bytes long; "Idot" is U+0130, the capital
\* I with a dot above, and "dot" is U+0307, the combining dot above
Utf8(c) ==
    CASE c = "rsquo" -> <<226, 128, 153>>
      [] c = "a" -> <<97>>
      [] c = "A" -> <<65>>
      [] c = "b" -> <<98>>
      [] c = "i" -> <<105>>
      [] c = "Idot" -> <<196, 176>>
      [] c = "dot" -> <<204, 135>>

\* str::as_bytes: the bytes of a string
RECURSIVE Bytes(_)
Bytes(str) == IF str = <<>> THEN <<>> ELSE Utf8(Head(str)) \o Bytes(Tail(str))

\* a UTF-8 continuation byte, 10xxxxxx
IsContinuationByte(b) == 128 <= b /\ b < 192

\* str::is_char_boundary(i), i a 0-based byte offset
is_char_boundary(bytes, i) ==
    \/ i = 0
    \/ i = Len(bytes)
    \/ i < Len(bytes) /\ ~IsContinuationByte(bytes[i + 1])

\* str::chars().count(): the bytes that start a character
CharCount(bytes) == Cardinality({i \in 1..Len(bytes) : ~IsContinuationByte(bytes[i])})

\* str::find(pattern): the first 0-based byte offset at which needle occurs in hay
Find(hay, needle) ==
    LET at == {p \in 0..(Len(hay) - Len(needle)) :
                  SubSeq(hay, p + 1, p + Len(needle)) = needle}
    IN  IF at = {} THEN None
        ELSE Some(CHOOSE p \in at : \A q \in at : p <= q)

\* lines 38-51, the case-sensitive loop, on the bytes of text and pattern:
\* text[start_byte..] panics when start_byte is not a character boundary
RECURSIVE SearchFrom(_, _, _, _, _)
SearchFrom(text, pattern, pattern_len_chars, start_byte, occurrences) ==
    IF ~is_char_boundary(text, start_byte) THEN Panic
    ELSE LET found == Find(SubSeq(text, start_byte + 1, Len(text)), pattern)
         IN  IF ~found.some THEN Returned(occurrences)
             ELSE LET absolute_byte == start_byte + found.val
                      char_start == CharCount(SubSeq(text, 1, absolute_byte))
                      pushed == Append(occurrences,
                                       <<char_start, char_start + pattern_len_chars>>)
                  IN  IF absolute_byte + 1 >= Len(text) THEN Returned(pushed)
                      ELSE SearchFrom(text, pattern, pattern_len_chars,
                                      absolute_byte + 1, pushed)

\* char::to_lowercase(): the characters of the lower-case form; U+0130 is the
\* character whose lower-case form has two characters, 'i' and U+0307
Lowercase(c) ==
    CASE c = "A" -> <<"a">>
      [] c = "Idot" -> <<"i", "dot">>
      [] OTHER -> <<c>>

\* char::to_lowercase().next() (line 73): the first character of the lower-case form
ToLower(c) == Head(Lowercase(c))

\* str::to_lowercase() (line 54): the lower-case forms of the characters, in order
RECURSIVE LowerStr(_)
LowerStr(str) ==
    IF str = <<>> THEN <<>> ELSE Lowercase(Head(str)) \o LowerStr(Tail(str))

\* lines 67-78: the pattern matches at the 0-based character position i
MatchesAt(text_chars, pattern_lower, i) ==
    \A j \in 0..(Len(pattern_lower) - 1) :
        /\ i + j < Len(text_chars)
        /\ ToLower(text_chars[i + j + 1]) = pattern_lower[j + 1]

\* lines 61-86, the case-insensitive loop, from the character position i
RECURSIVE ScanFrom(_, _, _, _)
ScanFrom(text_chars, pattern_lower, i, occurrences) ==
    IF i >= Len(text_chars) THEN occurrences
    ELSE IF i + Len(pattern_lower) > Len(text_chars) THEN occurrences
    ELSE ScanFrom(text_chars, pattern_lower, i + 1,
                  IF MatchesAt(text_chars, pattern_lower, i)
                  THEN Append(occurrences, <<i, i + Len(pattern_lower)>>)
                  ELSE occurrences)

\* a mutant of find_all_occurrences: no guard for the empty pattern
find_all_occurrences_NoEmptyGuard(text, pattern, case_sensitive) ==
    IF case_sensitive
    THEN SearchFrom(Bytes(text), Bytes(pattern), Len(pattern), 0, <<>>)
    ELSE Returned(ScanFrom(text, LowerStr(pattern), 0, <<>>))

find_all_occurrences(text, pattern, case_sensitive) ==
    IF pattern = <<>> THEN Returned(<<>>)
    ELSE IF case_sensitive
    THEN SearchFrom(Bytes(text), Bytes(pattern), Len(pattern), 0, <<>>)
    ELSE Returned(ScanFrom(text, LowerStr(pattern), 0, <<>>))

\* ------------------------------------------------------------------------
\* search.rs: find_occurrence_to_highlight
\* ------------------------------------------------------------------------

\* a match record (global_match_index, is_key_match)
Match(idx, is_key_match) == <<idx, is_key_match>>

\* matches.iter().position(|(idx, _)| *idx == match_index): the 0-based
\* position of the first record with that global index
Position(matches, match_index) ==
    LET at == {i \in 1..Len(matches) : matches[i][1] = match_index}
    IN  IF at = {} THEN None
        ELSE Some((CHOOSE i \in at : \A k \in at : i <= k) - 1)

\* lines 119-125: the value matches among the first local_index records
RECURSIVE ValueMatchesBefore(_, _)
ValueMatchesBefore(matches, local_index) ==
    IF local_index = 0 THEN 0
    ELSE ValueMatchesBefore(matches, local_index - 1)
         + (IF ~matches[local_index][2] THEN 1 ELSE 0)

find_occurrence_to_highlight(matches, match_index, formatted_value, search_text, case_sensitive) ==
    LET local == Position(matches, match_index)
    IN  IF ~local.some THEN Returned(None)
        ELSE IF local.val >= Len(matches) THEN Returned(None)
        ELSE IF matches[local.val + 1][2] THEN Returned(None)
        ELSE LET occurrence_in_node == ValueMatchesBefore(matches, local.val)
                 occurrences ==
                     find_all_occurrences(formatted_value, search_text, case_sensitive)
             IN  IF occurrences.panic THEN Panic
                 ELSE IF occurrence_in_node < Len(occurrences.val)
                 THEN Returned(Some(occurrences.val[occurrence_in_node + 1]))
                 ELSE Returned(None)

\* ------------------------------------------------------------------------
\* The grammar of the path mini-language, stated on the whole string
\* ------------------------------------------------------------------------

\* s without its first n characters
Drop(s, n) == SubSeq(s, n + 1, Len(s))

\* the number a digit string denotes, least significant digit first
RECURSIVE NumberOf(_)
NumberOf(d) ==
    IF d = <<>> THEN 0
    ELSE 10 * NumberOf(SubSeq(d, 1, Len(d) - 1)) + DigitValue(d[Len(d)])

\* escaped-key: t[i..j] is made of characters other than '"' and '\', and of
\* pairs '\' c
RECURSIVE IsEscapedKey(_, _, _)
IsEscapedKey(t, i, j) ==
    \/ i > j
    \/ t[i] = BSLASH /\ i + 1 <= j /\ IsEscapedKey(t, i + 2, j)
    \/ t[i] # BSLASH /\ t[i] # DQUOTE /\ IsEscapedKey(t, i + 1, j)

\* an escaped key with each backslash replaced by the character that follows it
RECURSIVE Unescape(_)
Unescape(e) ==
    IF e = <<>> THEN <<>>
    ELSE IF e[1] = BSLASH THEN <<e[2]>> \o Unescape(Drop(e, 2))
    ELSE <<e[1]>> \o Unescape(Drop(e, 1))

\* the first n characters of t are '.' non-empty-run-up-to-next-'.'-or-'['
IsDotComponent(t, n) ==
    /\ n >= 2
    /\ t[1] = "."
    /\ \A i \in 2..n : t[i] # "." /\ t[i] # "["

\* the first n characters of t are '["' escaped-key '"]'
IsQuotedComponent(t, n) ==
    /\ n >= 4
    /\ t[1] = "[" /\ t[2] = DQUOTE /\ t[n - 1] = DQUOTE /\ t[n] = "]"
    /\ IsEscapedKey(t, 3, n - 2)

\* the first n characters of t are '[' digit+ ']'
IsIndexComponent(t, n) ==
    /\ n >= 3
    /\ t[1] = "[" /\ t[n] = "]"
    /\ \A i \in 2..(n - 1) : t[i] \in Digits

\* the first n characters of t are '[' digit+ ']' with digits that denote a
\* number of at most usize::MAX
IsUsizeIndexComponent(t, n) ==
    /\ IsIndexComponent(t, n)
    /\ ~ExceedsUsizeMax(StripZeros(SubSeq(t, 2, n - 1)))

\* the first n characters of t are a component; fits = TRUE: an index
\* component must fit usize
IsComponent(t, n, fits) ==
    \/ IsDotComponent(t, n)
    \/ IsQuotedComponent(t, n)
    \/ IF fits THEN IsUsizeIndexComponent(t, n) ELSE IsIndexComponent(t, n)

\* component* : t splits into components
RECURSIVE IsComponents(_, _)
IsComponents(t, fits) ==
    \/ t = <<>>
    \/ \E n \in 1..Len(t) : IsComponent(t, n, fits) /\ IsComponents(Drop(t, n), fits)

\* path := '$' component*
MatchesGrammar(s, fits) == s # <<>> /\ s[1] = "$" /\ IsComponents(Drop(s, 1), fits)

\* the segment the component made of the first n characters of t denotes
SegmentOf(t, n) ==
    IF IsDotComponent(t, n) THEN Key(SubSeq(t, 2, n))
    ELSE IF IsQuotedComponent(t, n) THEN Key(Unescape(SubSeq(t, 3, n - 2)))
    ELSE Index(NumberOf(SubSeq(t, 2, n - 1)))

\* component* : Some(the segments of t, one per component, in order) when t
\* splits into components, None when it does not
RECURSIVE GrammarSegments(_, _)
GrammarSegments(t, fits) ==
    IF t = <<>> THEN Some(<<>>)
    ELSE LET firsts == {n \in 1..Len(t) : IsComponent(t, n, fits)}
             splits == {<<n, GrammarSegments(Drop(t, n), fits)>> : n \in firsts}
             good   == {sp \in splits : sp[2].some}
         IN  IF good = {} THEN None
             ELSE LET sp == CHOOSE sp \in good : TRUE
                  IN  Some(<<SegmentOf(t, sp[1])>> \o sp[2].val)

\* path := '$' component*, with the segments of the components
GrammarParse(s, fits) ==
    IF s = <<>> THEN None
    ELSE IF s[1] # "$" THEN None
    ELSE GrammarSegments(Drop(s, 1), fits)

\* ------------------------------------------------------------------------
\* Inputs of the path operations
\* ------------------------------------------------------------------------

\* the characters of the enumerated path strings: the five the parser tests for,
\* '$', a digit and a letter
RawChars == {"$", ".", "[", "]", DQUOTE, BSLASH, "1", "a"}

\* the characters of the enumerated keys
KeyChars == {"a", "1", "_", " ", ".", "[", "]", DQUOTE, BSLASH, "$"}

\* the characters of the keys given to format_path_component alone
ComponentChars == KeyChars \cup {"-", "@"}

\* array positions given to build_array_path
Indices == {0, 7, 10, 305}

\* path strings of the tests of value_lookup.rs, and bracket indices with
\* leading zeros and with twenty and more digits
CuratedPaths ==
    { <<"$", ".", "f", "o", "o", "[", "0", "]", ".", "b", "a", "r">>,
      <<"$", "[", DQUOTE, "m", "y", " ", "k", "e", "y", DQUOTE, "]", "[", "1", "]">>,
      <<"$", "[", DQUOTE, "k", "e", "y", BSLASH, DQUOTE, "v", "a", "l", "u", "e",
        BSLASH, BSLASH, "t", "e", "s", "t", DQUOTE, "]">>,
      <<"$", "[", "0", "0", "7", "]">>,
      <<"$", "[", "0", "0", "0", "0", "0", "0", "0", "0", "0", "0", "0", "0",
        "0", "0", "0", "0", "0", "0", "0", "0", "0", "4", "2", "]">>,
      <<"$", "[">> \o UsizeMaxDigits \o <<"0", "]">>,
      <<"$", "[">> \o SubSeq(UsizeMaxDigits, 1, 19) \o <<"6", "]">>,
      <<"$", ".", "a", "[">> \o SubSeq(UsizeMaxDigits, 1, 19) \o <<"6", "]", ".", "a">> }

\* the base strings the builders are applied to: the root data path of the tree
\* walk, and two strings that are not paths
BuilderBases == {<<"$">>, <<>>, <<"$", "[">>}

\* ------------------------------------------------------------------------
\* State
\* ------------------------------------------------------------------------

VARIABLES
    op,             \* the operation applied last
    base,           \* path operations: the string the run started from
    segs,           \* path operations: the segments appended by the builders, in order
    path,           \* path operations: the current path string
    parsed,         \* path operations: the result of parse_json_path(path)
    text,           \* search: the text searched (text, formatted_value)
    pattern,        \* search: the pattern searched for (pattern, search_text)
    case_sensitive, \* search: the case mode of the last call
    matches,        \* search: the match list of the last correlator call
    match_index,    \* search: the global index of the last correlator call
    found,          \* search: the outcome of the last call, Panic or Returned(v)
    doc,            \* store: the stored document
    query,          \* store: the path string of the last lookup
    result,         \* store: the result of the last lookup
    nodes           \* tree: the rows of the tree store, in the order they were appended

pathVars == <<base, segs, path, parsed>>

searchVars == <<text, pattern, case_sensitive, matches, match_index, found>>

storeVars == <<doc, query, result, nodes>>

vars == <<op, pathVars, searchVars, storeVars>>

\* the path operations have not been used
PathIdle == base = <<>> /\ segs = <<>> /\ path = <<>> /\ parsed = None

\* the search operations have not been used
SearchIdle ==
    /\ text = <<>> /\ pattern = <<>> /\ case_sensitive = TRUE
    /\ matches = <<>> /\ match_index = 0 /\ found = Returned(<<>>)

\* no document is stored
StoreIdle == doc = Single(Null) /\ query = <<>> /\ result = None /\ nodes = <<>>

\* ------------------------------------------------------------------------
\* Path operations
\* ------------------------------------------------------------------------

\* the key characters of the Key segments of a segment sequence
RECURSIVE KeyCharsOf(_)
KeyCharsOf(ss) ==
    IF ss = <<>> THEN 0
    ELSE (IF ss[1].seg = "Key" THEN Len(ss[1].key) ELSE 0) + KeyCharsOf(Tail(ss))

\* the empty input, which ExtendInput grows, or one of the curated inputs
PathInit ==
    /\ op = "init"
    /\ base \in {<<>>} \cup CuratedPaths
    /\ path = base
    /\ segs = <<>>
    /\ parsed = None
    /\ SearchIdle
    /\ StoreIdle

\* the caller supplies one more character of a raw path string: every string of
\* at most MaxShortLen characters, and every string of '$' and at most MaxTailLen
\* more characters
ExtendInput ==
    /\ segs = <<>>
    /\ op \in {"init", "input"}
    /\ \/ Len(base) < MaxShortLen
       \/ Len(base) >= 1 /\ base[1] = "$" /\ Len(base) < MaxTailLen + 1
    /\ \E c \in RawChars :
          /\ op' = "input"
          /\ base' = Append(base, c)
          /\ path' = Append(base, c)
          /\ UNCHANGED <<segs, parsed, searchVars, storeVars>>

BuildObject ==
    /\ base \in BuilderBases
    /\ Len(segs) < MaxSegs
    /\ \E key \in StringsUpTo(KeyChars, MaxKeyChars - KeyCharsOf(segs)) :
          /\ op' = "build_object_path"
          /\ path' = build_object_path(path, key)
          /\ segs' = Append(segs, Key(key))
          /\ parsed' = None
          /\ UNCHANGED <<base, searchVars, storeVars>>

BuildArray ==
    /\ base \in BuilderBases
    /\ Len(segs) < MaxSegs
    /\ \E index \in Indices :
          /\ op' = "build_array_path"
          /\ path' = build_array_path(path, index)
          /\ segs' = Append(segs, Index(index))
          /\ parsed' = None
          /\ UNCHANGED <<base, searchVars, storeVars>>

\* format_path_component is called on a key, outside any path
FormatComponent ==
    /\ op = "init"
    /\ base = <<>>
    /\ \E key \in StringsUpTo(ComponentChars, MaxComponentLen) :
          /\ op' = "format_path_component"
          /\ path' = format_path_component(key)
          /\ segs' = <<Key(key)>>
          /\ parsed' = None
          /\ UNCHANGED <<base, searchVars, storeVars>>

Parse ==
    /\ op # "parse_json_path"
    /\ op' = "parse_json_path"
    /\ parsed' = parse_json_path(path)
    /\ UNCHANGED <<base, segs, path, searchVars, storeVars>>

PathNext == ExtendInput \/ BuildObject \/ BuildArray \/ FormatComponent \/ Parse

SpecPath == PathInit /\ [][PathNext]_vars

\* ------------------------------------------------------------------------
\* Search operations
\* ------------------------------------------------------------------------

\* the characters of the searched texts: a lower-case and an upper-case ASCII
\* letter, a three-byte character and the letter whose lower-case form has two
\* characters
SearchChars == {"a", "A", "rsquo", "Idot"}

\* the characters of the node texts given to the correlator
NodeChars == {"a", "rsquo"}

\* the global match indices of the records of a match list
GlobalIndices == {0, 1, 2}

\* the global match indices asked for: those of the records and one no record has
RequestedIndices == GlobalIndices \cup {3}

\* all sequences over the elements es of length at most n
SeqsUpTo(es, n) == StringsUpTo(es, n)

MatchLists == SeqsUpTo({Match(idx, k) : idx \in GlobalIndices, k \in BOOLEAN}, MaxMatches)

SearchInit ==
    /\ op = "init"
    /\ text \in StringsUpTo(SearchChars, MaxTextLen)
    /\ pattern \in StringsUpTo(SearchChars, MaxPatternLen)
    /\ case_sensitive = TRUE
    /\ matches = <<>>
    /\ match_index = 0
    /\ found = Returned(<<>>)
    /\ PathIdle
    /\ StoreIdle

FindAll ==
    /\ op = "init"
    /\ \E cs \in BOOLEAN :
          /\ op' = "find_all_occurrences"
          /\ case_sensitive' = cs
          /\ found' = find_all_occurrences(text, pattern, cs)
          /\ UNCHANGED <<text, pattern, matches, match_index, pathVars, storeVars>>

\* the correlator is given the node texts of at most MaxNodeTextLen characters
\* over NodeChars and the search texts of at most MaxSearchTextLen characters
Highlight ==
    /\ op = "init"
    /\ Len(text) <= MaxNodeTextLen
    /\ \A i \in 1..Len(text) : text[i] \in NodeChars
    /\ Len(pattern) <= MaxSearchTextLen
    /\ \E ms \in MatchLists, g \in RequestedIndices, cs \in BOOLEAN :
          /\ op' = "find_occurrence_to_highlight"
          /\ matches' = ms
          /\ match_index' = g
          /\ case_sensitive' = cs
          /\ found' = find_occurrence_to_highlight(ms, g, text, pattern, cs)
          /\ UNCHANGED <<text, pattern, pathVars, storeVars>>

SearchNext == FindAll \/ Highlight

SpecSearch == SearchInit /\ [][SearchNext]_vars


\* ------------------------------------------------------------------------
\* Store operations
\* ------------------------------------------------------------------------

Scalars == {Null, Num(1)}

\* the keys of the members of the stored objects
ObjKeys == {<<"a">>, <<"1">>}

\* the keys and the array positions of the paths looked up
LookupKeys == {<<"a">>, <<"1">>, <<"b">>}

LookupIndices == {0, 1, 2}

\* the sequences of n distinct elements of S
RECURSIVE DistinctSeqs(_, _)
DistinctSeqs(S, n) ==
    IF n = 0 THEN {<<>>}
    ELSE {Append(q, x) : q \in DistinctSeqs(S, n - 1), x \in S} \cap
         {q \in [1..n -> S] : \A i, j \in 1..n : i # j => q[i] # q[j]}

\* the values of exactly n nodes, and the value sequences of n nodes in all
RECURSIVE ValuesOfSize(_)
RECURSIVE ItemsOfSize(_)
ValuesOfSize(n) ==
    (IF n = 1 THEN Scalars ELSE {})
        \cup {Arr(items) : items \in ItemsOfSize(n - 1)}
        \cup UNION {{Obj([i \in 1..Len(items) |-> <<keys[i], items[i]>>]) :
                        keys \in DistinctSeqs(ObjKeys, Len(items))} :
                    items \in ItemsOfSize(n - 1)}

ItemsOfSize(n) ==
    IF n = 0 THEN {<<>>}
    ELSE UNION {{<<v>> \o rest : v \in ValuesOfSize(k), rest \in ItemsOfSize(n - k)} :
                k \in 1..n}

\* the stored documents: a single value of at most MaxNodes nodes, or the lines
\* of a JSONL file with at most MaxNodes nodes in all
Docs ==
    {Single(v) : v \in UNION {ValuesOfSize(n) : n \in 1..MaxNodes}}
        \cup {JsonLDocument_new(vs) : vs \in UNION {ItemsOfSize(n) : n \in 0..MaxNodes}}

\* the paths of at most n segments built from "$"
RECURSIVE BuiltPaths(_)
BuiltPaths(n) ==
    IF n = 0 THEN {<<"$">>}
    ELSE LET shorter == BuiltPaths(n - 1)
         IN  shorter
                 \cup {build_object_path(p, k) : p \in shorter, k \in LookupKeys}
                 \cup {build_array_path(p, i) : p \in shorter, i \in LookupIndices}

\* path strings parse_json_path rejects
MalformedPaths ==
    { <<>>, <<"a">>, <<".", "a">>, <<"[", "0", "]">>, <<"$", "$">>, <<"$", "a">>,
      <<"$", ".">>, <<"$", ".", "a", ".">>, <<"$", "[">>, <<"$", "[", "]">>,
      <<"$", "[", "0">>, <<"$", "[", "a", "]">>, <<"$", "[", "0", "]", "]">>,
      <<"$", "[", DQUOTE, "a">>, <<"$", "[", DQUOTE, "a", DQUOTE>>,
      <<"$", "[", DQUOTE, "a", BSLASH>>, <<"$", "[", DQUOTE, "a", BSLASH, DQUOTE, "]">>,
      <<"$", "[">> \o UsizeMaxDigits \o <<"0", "]">> }

LookupPaths == BuiltPaths(MaxLookupSegs) \cup MalformedPaths

StoreInit ==
    /\ op = "init"
    /\ doc \in Docs
    /\ query = <<>>
    /\ result = None
    /\ nodes = <<>>
    /\ PathIdle
    /\ SearchIdle

LookupValue ==
    /\ op = "init"
    /\ doc.kind = "Single"
    /\ \E p \in LookupPaths :
          /\ op' = "lookup_value"
          /\ query' = p
          /\ result' = lookup_value(doc.value, p)
          /\ UNCHANGED <<doc, nodes, pathVars, searchVars>>

LookupValueInJsonl ==
    /\ op = "init"
    /\ doc.kind = "JsonL"
    /\ \E p \in LookupPaths :
          /\ op' = "lookup_value_in_jsonl"
          /\ query' = p
          /\ result' = lookup_value_in_jsonl(doc.values, p)
          /\ UNCHANGED <<doc, nodes, pathVars, searchVars>>

StoredLookup ==
    /\ op = "init"
    /\ \E p \in LookupPaths :
          /\ op' = "StoredDocument::lookup_value"
          /\ query' = p
          /\ result' = StoredDocument_lookup_value(doc, p)
          /\ UNCHANGED <<doc, nodes, pathVars, searchVars>>

StoreNext == LookupValue \/ LookupValueInJsonl \/ StoredLookup

SpecStore == StoreInit /\ [][StoreNext]_vars

\* ------------------------------------------------------------------------
\* A stored JSONL document and the lookups made in it, one after another
\* ------------------------------------------------------------------------

\* the paths looked up one after another: the root, lines that exist or not,
\* members found or not, a leading key, and strings that are not paths
RepeatedPaths ==
    { <<"$">>, <<"$", "[", "0", "]">>, <<"$", "[", "1", "]">>,
      <<"$", "[", "0", "]", ".", "a">>, <<"$", "[", "1", "]", "[", "0", "]">>,
      <<"$", ".", "a">>, <<"$", "[">>, <<>> }

StoreSeqInit ==
    /\ op = "init"
    /\ StoreIdle
    /\ PathIdle
    /\ SearchIdle

\* JsonLDocument::new, and the document is stored as StoredDocument::JsonL
NewJsonL ==
    /\ op = "init"
    /\ \E vs \in UNION {ItemsOfSize(n) : n \in 0..MaxNodes} :
          /\ op' = "JsonLDocument::new"
          /\ doc' = JsonLDocument_new(vs)
          /\ UNCHANGED <<query, result, nodes, pathVars, searchVars>>

\* StoredDocument::lookup_value(&self, path), after the construction and after
\* any lookup
LookupAgain ==
    /\ op \in {"JsonLDocument::new", "StoredDocument::lookup_value"}
    /\ \E p \in RepeatedPaths :
          /\ op' = "StoredDocument::lookup_value"
          /\ query' = p
          /\ result' = StoredDocument_lookup_value(doc, p)
          /\ UNCHANGED <<doc, nodes, pathVars, searchVars>>

StoreSeqNext == NewJsonL \/ LookupAgain

SpecStoreSeq == StoreSeqInit /\ [][StoreSeqNext]_vars

\* ------------------------------------------------------------------------
\* The tree walk
\* ------------------------------------------------------------------------

\* the member names given to the objects of the documents walked: those of the
\* stored documents, or names with an empty key, a dot, a quote, a backslash
\* and a bracket
MemberNamings ==
    { [k \in ObjKeys |-> k],
      [k \in ObjKeys |-> IF k = <<"a">> THEN <<>> ELSE <<"a", ".", "b">>],
      [k \in ObjKeys |-> IF k = <<"a">> THEN <<DQUOTE>> ELSE <<BSLASH, "]">>] }

\* the value v with the members of its objects named by naming
RECURSIVE Renamed(_, _)
Renamed(v, naming) ==
    IF v.t = "object"
    THEN Obj([i \in 1..Len(v.members) |->
                 <<naming[v.members[i][1]], Renamed(v.members[i][2], naming)>>])
    ELSE IF v.t = "array"
    THEN Arr([i \in 1..Len(v.items) |-> Renamed(v.items[i], naming)])
    ELSE v

TreeDocs ==
    {Single(Renamed(v, naming)) :
         v \in UNION {ValuesOfSize(n) : n \in 1..MaxNodes}, naming \in MemberNamings}
        \cup {JsonLDocument_new([i \in 1..Len(vs) |-> Renamed(vs[i], naming)]) :
                  vs \in UNION {ItemsOfSize(n) : n \in 0..MaxNodes},
                  naming \in MemberNamings}

TreeInit ==
    /\ op = "init"
    /\ doc \in TreeDocs
    /\ query = <<>>
    /\ result = None
    /\ nodes = <<>>
    /\ PathIdle
    /\ SearchIdle

AddSingleValueToTree ==
    /\ op = "init"
    /\ doc.kind = "Single"
    /\ op' = "add_single_value_to_tree"
    /\ nodes' = add_single_value_to_tree(doc.value)
    /\ UNCHANGED <<doc, query, result, pathVars, searchVars>>

AddJsonlToTree ==
    /\ op = "init"
    /\ doc.kind = "JsonL"
    /\ op' = "add_jsonl_to_tree"
    /\ nodes' = add_jsonl_to_tree(doc.values)
    /\ UNCHANGED <<doc, query, result, pathVars, searchVars>>

TreeNext == AddSingleValueToTree \/ AddJsonlToTree

SpecTree == TreeInit /\ [][TreeNext]_vars

\* ------------------------------------------------------------------------
\* Claims about the path operations
\* ------------------------------------------------------------------------

\* C1: a path built from "$" by build_object_path / build_array_path, one call
\* per segment, is parsed by parse_json_path into exactly those segments.
C1_RoundTrip ==
    (op = "parse_json_path" /\ base = <<"$">>) => parsed = Some(segs)

\* C1 witness: a parsed path of two segments, a key holding a quote or a
\* backslash followed by an index.
C1_Witness ==
    /\ op = "parse_json_path" /\ base = <<"$">>
    /\ Len(segs) = 2
    /\ segs[1].seg = "Key"
    /\ \E i \in 1..Len(segs[1].key) : segs[1].key[i] \in {DQUOTE, BSLASH}
    /\ segs[2].seg = "Index"
    /\ parsed = Some(segs)

\* C2 (as stated): parse_json_path returns the segment sequence of its input
\* if and only if the whole input matches
\*   path := '$' component*,
\*   component := '.' run | '["' escaped-key '"]' | '[' digit+ ']',
\* and returns absent otherwise.
C2_AnyDigits ==
    op = "parse_json_path" =>
        /\ parsed.some <=> MatchesGrammar(path, FALSE)
        /\ parsed.some => parsed = GrammarParse(path, FALSE)

\* C2 (amended): the same, with '[' digit+ ']' a component only when the digits
\* denote a number of at most usize::MAX.
C2_UsizeDigits ==
    op = "parse_json_path" =>
        parsed = GrammarParse(path, TRUE)

\* C2 witness: an accepted path whose quoted key holds an escaped quote and an
\* escaped backslash.
C2_Witness ==
    /\ op = "parse_json_path"
    /\ parsed.some
    /\ Len(parsed.val) = 1
    /\ parsed.val[1].seg = "Key"
    /\ \E i, j \in 1..Len(parsed.val[1].key) :
          parsed.val[1].key[i] = DQUOTE /\ parsed.val[1].key[j] = BSLASH

\* ------------------------------------------------------------------------
\* Claims about the search operations
\* ------------------------------------------------------------------------

\* the 0-based character positions at which pattern occurs literally in text
OccurrencePositions(t, p) ==
    {i \in 0..(Len(t) - Len(p)) : SubSeq(t, i + 1, i + Len(p)) = p}

\* the spans (i, i + n) of the positions ps, in ascending order of i
RECURSIVE SpansOf(_, _)
SpansOf(ps, n) ==
    IF ps = {} THEN <<>>
    ELSE LET i == CHOOSE i \in ps : \A k \in ps : i <= k
         IN  <<(<<i, i + n>>)>> \o SpansOf(ps \ {i}, n)

\* a case-sensitive search for a non-empty pattern has been made
CaseSensitiveSearchDone ==
    op = "find_all_occurrences" /\ case_sensitive /\ pattern # <<>>

\* C3: in case-sensitive mode with a non-empty pattern, find_all_occurrences
\* returns exactly the spans (i, i + |pattern|) of every character position i at
\* which the pattern occurs in the text, in ascending order, overlaps included,
\* and the empty list when the pattern does not occur.
C3_AllOccurrences ==
    CaseSensitiveSearchDone =>
        found = Returned(SpansOf(OccurrencePositions(text, pattern), Len(pattern)))

\* C4: in case-sensitive mode over text with multi-byte characters the search
\* completes without fault, every returned start offset is a character position
\* at which the pattern occurs, the first span is the first occurrence, each
\* next span is the first occurrence one or more characters after the previous
\* start, and no occurrence after the last span is left out.
C4_CharacterStepping ==
    CaseSensitiveSearchDone =>
        /\ ~found.panic
        /\ LET occ == found.val
               ps == OccurrencePositions(text, pattern)
               NextFrom(i) == {q \in ps : q >= i}
           IN  /\ \A k \in 1..Len(occ) :
                     /\ occ[k][1] \in ps
                     /\ occ[k][2] = occ[k][1] + Len(pattern)
                     /\ \A q \in NextFrom(IF k = 1 THEN 0 ELSE occ[k - 1][1] + 1) :
                           occ[k][1] <= q
               /\ NextFrom(IF occ = <<>> THEN 0 ELSE occ[Len(occ)][1] + 1) = {}

\* a correlator call has been made
CorrelatorDone == op = "find_occurrence_to_highlight"

\* the records of the match list have distinct global indices
DistinctIndices(ms) ==
    \A i, j \in 1..Len(ms) : i # j => ms[i][1] # ms[j][1]

\* the positions of the records with global index g
RecordsOf(ms, g) == {i \in 1..Len(ms) : ms[i][1] = g}

\* the value matches that precede record i: its node-local occurrence rank
RankOf(ms, i) == Cardinality({k \in 1..(i - 1) : ~ms[k][2]})

\* the mapping of C5 on the calls whose occurrence search returns: no
\* highlight for a key match, and for a value match of rank k (k value matches
\* precede it) the k-th occurrence (0-based), none when there is no such one
KthValueMatchWhereSearchReturns ==
    (CorrelatorDone /\ DistinctIndices(matches) /\ RecordsOf(matches, match_index) # {}) =>
        LET i == CHOOSE i \in RecordsOf(matches, match_index) : TRUE
            occ == find_all_occurrences(text, pattern, case_sensitive)
        IN  IF matches[i][2] THEN found = Returned(None)
            ELSE ~occ.panic =>
                    found = Returned(IF RankOf(matches, i) < Len(occ.val)
                                     THEN Some(occ.val[RankOf(matches, i) + 1])
                                     ELSE None)

\* C5: for a match list with distinct global indices, the correlator returns no
\* highlight when the record of the requested index is a key match; when it is
\* a value match of rank k (k value matches precede it) it returns the k-th
\* element (0-based) of the occurrences of the search text in the node text.
C5_KthValueMatch ==
    (CorrelatorDone /\ DistinctIndices(matches) /\ RecordsOf(matches, match_index) # {}) =>
        LET i == CHOOSE i \in RecordsOf(matches, match_index) : TRUE
            occ == find_all_occurrences(text, pattern, case_sensitive)
        IN  IF matches[i][2] THEN found = Returned(None)
            ELSE /\ ~found.panic
                 /\ ~occ.panic
                 /\ found = Returned(IF RankOf(matches, i) < Len(occ.val)
                                     THEN Some(occ.val[RankOf(matches, i) + 1])
                                     ELSE None)

\* C6: for every match list, requested index, node text, search text and case
\* mode the correlator returns and never faults, and it returns no highlight when
\* the requested index is absent from the list or the rank is at least the
\* number of occurrences found in the node text.
C6_NeverFaults ==
    CorrelatorDone =>
        /\ ~found.panic
        /\ RecordsOf(matches, match_index) = {} => found = Returned(None)
        /\ LET occ == find_all_occurrences(text, pattern, case_sensitive)
               i == CHOOSE i \in RecordsOf(matches, match_index) :
                       \A k \in RecordsOf(matches, match_index) : i <= k
           IN  (/\ RecordsOf(matches, match_index) # {}
                /\ ~occ.panic
                /\ RankOf(matches, i) >= Len(occ.val)) => found = Returned(None)

\* ------------------------------------------------------------------------
\* Claims about lookup and the document store
\* ------------------------------------------------------------------------

\* the sub-values of v a segment selects: member k of an object for Key(k),
\* element i of an array for Index(i), nothing otherwise
Selected(v, segment) ==
    IF segment.seg = "Key"
    THEN IF v.t = "object"
         THEN {v.members[i][2] : i \in {j \in 1..Len(v.members) : v.members[j][1] = segment.key}}
         ELSE {}
    ELSE IF v.t = "array"
         THEN {v.items[i] : i \in {segment.index + 1} \cap (1..Len(v.items))}
         ELSE {}

\* the sub-values reached from root by following the segments, last step last
RECURSIVE Reached(_, _)
Reached(root, segments) ==
    IF segments = <<>> THEN {root}
    ELSE UNION {Selected(u, segments[Len(segments)]) :
                    u \in Reached(root, SubSeq(segments, 1, Len(segments) - 1))}

LookupValueDone == op = "lookup_value"

LookupDone == op \in {"lookup_value", "lookup_value_in_jsonl", "StoredDocument::lookup_value"}

\* C7: lookup_value(root, path), for a path that parses to segments s1..sn,
\* returns root itself when n = 0 and otherwise the sub-value reached by
\* following s1..sn from root, whenever every step exists.
C7_FollowsSegments ==
    (LookupValueDone /\ parse_json_path(query).some) =>
        LET segments == parse_json_path(query).val
            reached == Reached(doc.value, segments)
        IN  /\ segments = <<>> => result = Some(doc.value)
            /\ reached # {} => result.some /\ result.val \in reached
            /\ Cardinality(reached) <= 1

\* C7 witness: a key step and then an index step reach a number.
C7_Witness ==
    /\ LookupValueDone
    /\ parse_json_path(query).some
    /\ Len(parse_json_path(query).val) = 2
    /\ parse_json_path(query).val[1].seg = "Key"
    /\ parse_json_path(query).val[2].seg = "Index"
    /\ result = Some(Num(1))

\* C8: lookup_value returns not found as soon as one segment of a parsed path
\* cannot be followed: a Key on an array or scalar, a Key the object does not
\* have, an Index on an object or scalar, an Index at or beyond the length.
C8_Unresolvable ==
    (LookupValueDone /\ parse_json_path(query).some) =>
        LET segments == parse_json_path(query).val
        IN  (\E j \in 1..Len(segments) :
                Reached(doc.value, SubSeq(segments, 1, j)) = {}) => result = None

\* C8 witness: Index(1) applied to an object that has a member named "1".
C8_Witness ==
    /\ LookupValueDone
    /\ doc.value.t = "object"
    /\ \E i \in 1..Len(doc.value.members) : doc.value.members[i][1] = <<"1">>
    /\ parse_json_path(query) = Some(<<Index(1)>>)
    /\ result = None

\* C9: for every string parse_json_path rejects, lookup_value,
\* lookup_value_in_jsonl and StoredDocument::lookup_value return not found, and
\* every lookup returns a found or not-found result.
C9_Malformed ==
    LookupDone =>
        /\ result = None \/ result.some
        /\ ~parse_json_path(query).some => result = None

\* C9 witness: a rejected string that starts with "$", looked up in a stored
\* JsonL document that has lines.
C9_Witness ==
    /\ op = "StoredDocument::lookup_value"
    /\ doc.kind = "JsonL"
    /\ doc.values # <<>>
    /\ Len(query) > 1
    /\ query[1] = "$"
    /\ ~parse_json_path(query).some
    /\ result = None

\* C10: StoredDocument::lookup_value("$") returns a value equal to {"lines": n}
\* for a JsonL document built from n values, and the stored value itself for a
\* Single document.
C10_RootCase ==
    (op = "StoredDocument::lookup_value" /\ query = <<"$">>) =>
        IF doc.kind = "JsonL"
        THEN result = Some(Obj(<< <<LinesKey, Num(Len(doc.values))>> >>))
        ELSE result = Some(doc.value)

\* C10 witness: "$" looked up in a JsonL document of two lines gives {"lines": 2}.
C10_Witness ==
    /\ op = "StoredDocument::lookup_value"
    /\ query = <<"$">>
    /\ doc.kind = "JsonL"
    /\ Len(doc.values) = 2
    /\ result = Some(Obj(<< <<LinesKey, Num(2)>> >>))

\* C11: lookup_value_in_jsonl returns not found when the path parses to no
\* segment, when its first segment is a Key, or when it is Index(i) with i at or
\* beyond the number of lines; for Index(i) below the number of lines its result
\* is the lookup of the remaining segments in line i.
C11_JsonlLookup ==
    (op = "lookup_value_in_jsonl" /\ parse_json_path(query).some) =>
        LET segments == parse_json_path(query).val
        IN  IF segments = <<>> THEN result = None
            ELSE IF segments[1].seg = "Key" THEN result = None
            ELSE IF segments[1].index >= Len(doc.values) THEN result = None
            ELSE LET line == doc.values[segments[1].index + 1]
                     reached == Reached(line, SubSeq(segments, 2, Len(segments)))
                 IN  /\ Len(segments) = 1 => result = Some(line)
                     /\ reached = {} => result = None
                     /\ reached # {} => result.some /\ result.val \in reached

\* C11 witness: a key of the second line of a two-line document is found.
C11_Witness ==
    /\ op = "lookup_value_in_jsonl"
    /\ Len(doc.values) = 2
    /\ parse_json_path(query).some
    /\ Len(parse_json_path(query).val) = 2
    /\ parse_json_path(query).val[1] = Index(1)
    /\ parse_json_path(query).val[2].seg = "Key"
    /\ result.some

\* ------------------------------------------------------------------------
\* Claims about path formatting
\* ------------------------------------------------------------------------

\* the escaped form of a key, character by character: '\' gives '\\', '"'
\* gives '\"', every other character gives itself
RECURSIVE EscapedOnce(_)
EscapedOnce(key) ==
    IF key = <<>> THEN <<>>
    ELSE (CASE key[1] = BSLASH -> <<BSLASH, BSLASH>>
            [] key[1] = DQUOTE -> <<BSLASH, DQUOTE>>
            [] OTHER -> <<key[1]>>) \o EscapedOnce(Drop(key, 1))

\* the key is non-empty, starts with a letter or '_' and holds only letters,
\* digits and '_'
IsIdentifier(key) ==
    /\ Len(key) >= 1
    /\ key[1] \in Letters \cup {"_"}
    /\ {key[i] : i \in 1..Len(key)} \subseteq Letters \cup Digits \cup {"_"}

FormatDone == op = "format_path_component"

\* C12: format_path_component(key) is "." followed by key exactly when key is an
\* identifier, and otherwise '["' + e + '"]' where e is key with every backslash
\* and every quote escaped once.
C12_ComponentForm ==
    FormatDone =>
        LET key == segs[1].key
        IN  /\ IsIdentifier(key) <=> path = <<".">> \o key
            /\ ~IsIdentifier(key) =>
                   path = <<"[", DQUOTE>> \o EscapedOnce(key) \o <<DQUOTE, "]">>

\* C12 witness: a key of a backslash followed by a quote is rendered with four
\* characters between the quotes.
C12_Witness ==
    /\ FormatDone
    /\ segs[1].key = <<BSLASH, DQUOTE>>
    /\ path = <<"[", DQUOTE, BSLASH, BSLASH, BSLASH, DQUOTE, DQUOTE, "]">>

\* the decimal form of n: digits only, no leading zero unless it is "0"
\* alone, denoting n
IsDecimalOf(d, n) ==
    /\ Len(d) >= 1
    /\ \A i \in 1..Len(d) : d[i] \in Digits
    /\ Len(d) > 1 => d[1] # "0"
    /\ NumberOf(d) = n

\* C13: the path builders only append: build_object_path(base, key) is base
\* followed by format_path_component(key), and build_array_path(base, i) is base
\* followed by '[' + decimal(i) + ']', for every base string, a path or not.
C13_OnlyAppend ==
    [][/\ op' = "build_object_path" =>
            path' = path \o format_path_component(segs'[Len(segs')].key)
       /\ op' = "build_array_path" =>
            /\ Len(path') >= Len(path) + 3
            /\ SubSeq(path', 1, Len(path)) = path
            /\ path'[Len(path) + 1] = "["
            /\ path'[Len(path')] = "]"
            /\ IsDecimalOf(SubSeq(path', Len(path) + 2, Len(path') - 1),
                           segs'[Len(segs')].index)]_vars

\* C13 witness: an index and then a key have been appended to a base that is
\* not a path.
C13_Witness ==
    /\ op = "build_object_path"
    /\ base = <<"$", "[">>
    /\ Len(segs) = 2
    /\ segs[1] = Index(10)
    /\ segs[2].seg = "Key"
    /\ SubSeq(path, 1, 6) = <<"$", "[", "[", "1", "0", "]">>

\* ------------------------------------------------------------------------
\* Claims about the case-insensitive search and about both modes
\* ------------------------------------------------------------------------

SearchDone == op = "find_all_occurrences"

\* the 0-based character positions i of t at which a match of p fits and, for
\* every position j of p, the lower-case form of the character of t at i + j
\* equals the lower-case form of the character of p at j
FoldedPositions(t, p) ==
    {i \in 0..(Len(t) - Len(p)) :
        \A j \in 1..Len(p) : Lowercase(t[i + j]) = Lowercase(p[j])}

\* C14: in case-insensitive mode with a non-empty pattern, find_all_occurrences
\* records the span (i, i + pattern length) exactly for the positions i at which
\* the lower-cased text characters equal the lower-cased pattern characters, in
\* ascending order of i, overlaps included.
C14_FoldedOccurrences ==
    (SearchDone /\ ~case_sensitive /\ pattern # <<>>) =>
        found = Returned(SpansOf(FoldedPositions(text, pattern), Len(pattern)))

\* the statement of C14 on the patterns whose characters each have a lower-case
\* form of one character
FoldedOccurrencesOfSimplePatterns ==
    (SearchDone /\ ~case_sensitive /\ pattern # <<>>
        /\ \A j \in 1..Len(pattern) : Len(Lowercase(pattern[j])) = 1) =>
        found = Returned(SpansOf(FoldedPositions(text, pattern), Len(pattern)))

\* C15: for every text and both case modes, find_all_occurrences with an empty
\* pattern returns the empty list.
C15_EmptyPattern ==
    (SearchDone /\ pattern = <<>>) => found = Returned(<<>>)

\* C15 witness: an empty pattern searched, ignoring case, in a text of two
\* characters, one of them multi-byte.
C15_Witness ==
    /\ SearchDone
    /\ pattern = <<>>
    /\ ~case_sensitive
    /\ Len(text) = 2
    /\ \E i \in 1..2 : text[i] = "rsquo"
    /\ found = Returned(<<>>)

\* lower-casing leaves every character of the string unchanged
Caseless(str) == \A i \in 1..Len(str) : Lowercase(str[i]) = <<str[i]>>

\* C16: for every text and non-empty pattern made only of characters that
\* lower-casing leaves unchanged, the case-sensitive and the case-insensitive
\* search return the identical list of spans.
C16_SameInBothModes ==
    (SearchDone /\ pattern # <<>> /\ Caseless(pattern) /\ Caseless(text)) =>
        /\ ~found.panic
        /\ found = find_all_occurrences(text, pattern, ~case_sensitive)

\* the statement of C16 on the calls for which both searches return
SameInBothModesWhereSearchReturns ==
    (SearchDone /\ pattern # <<>> /\ Caseless(pattern) /\ Caseless(text)
        /\ ~found.panic /\ ~find_all_occurrences(text, pattern, ~case_sensitive).panic) =>
        found = find_all_occurrences(text, pattern, ~case_sensitive)

\* the list has strictly increasing start offsets, every span (s, e) has
\* 0 <= s < e <= n, and there are at most n spans
WellFormedSpans(occ, n) ==
    /\ \A k \in 1..Len(occ) : 0 <= occ[k][1] /\ occ[k][1] < occ[k][2] /\ occ[k][2] <= n
    /\ \A k \in 2..Len(occ) : occ[k - 1][1] < occ[k][1]
    /\ Len(occ) <= n

\* C19: for every text, every non-empty pattern and both case modes, the search
\* of find_all_occurrences terminates with a list, and that list has strictly
\* increasing start offsets, spans within the text and at most as many spans as
\* the text has characters.
C19_TerminatesWellFormed ==
    (SearchDone /\ pattern # <<>>) =>
        /\ ~found.panic
        /\ WellFormedSpans(found.val, Len(text))

\* the statement of C19 on the calls that return
WellFormedWhereSearchReturns ==
    (SearchDone /\ pattern # <<>> /\ ~found.panic) =>
        WellFormedSpans(found.val, Len(text))

\* ------------------------------------------------------------------------
\* Claims about the stored document over a sequence of lookups
\* ------------------------------------------------------------------------

\* what a lookup of the path string q in the lines vs gives, as a function of vs
\* and q alone: the summary for "$", nothing for a string that is not a path,
\* for a leading key and for a line that does not exist, and otherwise what the
\* remaining segments reach from the line
JsonlAnswer(vs, q) ==
    IF q = <<"$">> THEN Some(Obj(<< <<LinesKey, Num(Len(vs))>> >>))
    ELSE IF ~MatchesGrammar(q, TRUE) THEN None
    ELSE LET segments == GrammarParse(q, TRUE).val
         IN  IF segments[1].seg = "Key" THEN None
             ELSE IF segments[1].index >= Len(vs) THEN None
             ELSE LET reached == Reached(vs[segments[1].index + 1],
                                         SubSeq(segments, 2, Len(segments)))
                  IN  IF reached = {} THEN None
                      ELSE Some(CHOOSE v \in reached : TRUE)

\* C17: in every state reached by constructing a JsonL document and then making
\* any sequence of StoredDocument::lookup_value calls, summary equals
\* {"lines": length(values)}, every lookup leaves the stored document unchanged,
\* and the result of a lookup is a function of the document and the path.
C17_StoreImmutable ==
    /\ [](op # "init" =>
            /\ doc.kind = "JsonL"
            /\ doc.summary = Obj(<< <<LinesKey, Num(Len(doc.values))>> >>)
            /\ op = "StoredDocument::lookup_value" =>
                   result = JsonlAnswer(doc.values, query))
    /\ [][op # "init" => doc' = doc]_vars

\* C17 witness: the second of two equal lines is found by a lookup.
C17_Witness ==
    /\ op = "StoredDocument::lookup_value"
    /\ Len(doc.values) = 2
    /\ doc.values[1] = doc.values[2]
    /\ query = <<"$", "[", "1", "]">>
    /\ result = Some(doc.values[2])

\* ------------------------------------------------------------------------
\* Claims about the tree walk
\* ------------------------------------------------------------------------

\* the nodes of v: the pairs of the segments that lead from v to a node and the
\* value of that node, v itself included
RECURSIVE PositionsOf(_)
PositionsOf(v) ==
    {<<(<<>>), v>>} \cup
    (IF v.t = "object"
     THEN UNION {{<<(<<Key(v.members[i][1])>> \o pos[1]), pos[2]>> :
                     pos \in PositionsOf(v.members[i][2])} : i \in 1..Len(v.members)}
     ELSE IF v.t = "array"
     THEN UNION {{<<(<<Index(i - 1)>> \o pos[1]), pos[2]>> :
                     pos \in PositionsOf(v.items[i])} : i \in 1..Len(v.items)}
     ELSE {})

\* the nodes of the lines vs: line i - 1 and its descendants, for every line
LinePositionsOf(vs) ==
    UNION {{<<(<<Index(i - 1)>> \o pos[1]), pos[2]>> : pos \in PositionsOf(vs[i])} :
              i \in 1..Len(vs)}

\* the rows have distinct data paths
DistinctDataPaths(rows) ==
    \A j, k \in 1..Len(rows) : j # k => rows[j].data_path # rows[k].data_path

\* the pairs of the segments a row's data path parses to and the row's value
RowPositions(rows, from) ==
    {<<parse_json_path(rows[k].data_path), rows[k].value>> : k \in from..Len(rows)}

\* C18: every data path emitted by the tree walk resolves back to the node it
\* was emitted for, by lookup_value in a single document and by
\* lookup_value_in_jsonl for the line rows and their descendants of a JSONL
\* document, and distinct rows of one document get distinct data paths.
C18_DataPathsResolve ==
    /\ op = "add_single_value_to_tree" =>
          /\ \A k \in 1..Len(nodes) :
                /\ nodes[k].value.some
                /\ lookup_value(doc.value, nodes[k].data_path) = nodes[k].value
          /\ DistinctDataPaths(nodes)
          /\ RowPositions(nodes, 1) =
                {<<Some(pos[1]), Some(pos[2])>> : pos \in PositionsOf(doc.value)}
    /\ op = "add_jsonl_to_tree" =>
          /\ \A k \in 2..Len(nodes) :
                /\ nodes[k].value.some
                /\ lookup_value_in_jsonl(doc.values, nodes[k].data_path) = nodes[k].value
          /\ DistinctDataPaths(nodes)
          /\ RowPositions(nodes, 2) =
                {<<Some(pos[1]), Some(pos[2])>> : pos \in LinePositionsOf(doc.values)}

\* C18 witness: the element of an array that is the member named by a quote
\* of the root object has the data path $["\""][0].
C18_Witness ==
    /\ op = "add_single_value_to_tree"
    /\ Len(nodes) = 3
    /\ nodes[3].data_path =
          <<"$", "[", DQUOTE, BSLASH, DQUOTE, DQUOTE, "]", "[", "0", "]">>
    /\ lookup_value(doc.value, nodes[3].data_path) = nodes[3].value

====
